---------------------------- MODULE Spec2Model ----------------------------
(***************************************************************************)
(* Model of scripts/generate_proto.py: the generator that turns a Unity    *)
(* Catalog table schema into a proto2 message definition.                  *)
(*                                                                         *)
(* A Python str that the program inspects character by character (a type   *)
(* text, a table name) is a sequence of one-character strings, so that     *)
(* upper(), strip(), startswith() and the two regular expressions are      *)
(* computed, not assumed.  A str that the program only builds (a proto     *)
(* type, an error message) is a TLA+ string, put together with \o.         *)
(* Python's None is the empty tuple and a present value v is <<v>>.        *)
(***************************************************************************)
EXTENDS Integers, Sequences, FiniteSets, TLC

VARIABLES
    \* one call of get_proto_field_info
    column_type,    \* its first argument, a type text
    nullable,       \* its second argument
    field_info,     \* what the call returned or raised
    call,           \* "idle", "pending" or "returned"
    \* one run of main
    pc,             \* the position of main
    args,           \* the parsed command line
    table_info,     \* the payload fetch_table_info returned
    columns,        \* the list extract_columns returned
    message_name,   \* the name of the generated message
    proto_content,  \* the lines generate_proto_file has collected
    idx,            \* the 1-based position of the column being mapped
    dest,           \* the destination file: None when absent, else <<lines>>
    dest_before,    \* the destination file as the run found it
    calls,          \* the functions main has entered, in order
    raised,         \* the exception that ended the run, or "none"
    stderr,         \* the message the except clause printed
    exit_code       \* what main returned: None while running

mapvars == <<column_type, nullable, field_info, call>>

mainvars == <<pc, args, table_info, columns, message_name, proto_content, idx,
              dest, dest_before, calls, raised, stderr, exit_code>>

vars == <<column_type, nullable, field_info, call,
          pc, args, table_info, columns, message_name, proto_content, idx,
          dest, dest_before, calls, raised, stderr, exit_code>>

None == <<>>

Some(v) == <<v>>

-----------------------------------------------------------------------------
(* Python str operations on sequences of characters.                       *)

Lowers == <<"a", "b", "c", "d", "e", "f", "g", "h", "i", "j", "k", "l", "m",
            "n", "o", "p", "q", "r", "s", "t", "u", "v", "w", "x", "y", "z">>

Uppers == <<"A", "B", "C", "D", "E", "F", "G", "H", "I", "J", "K", "L", "M",
            "N", "O", "P", "Q", "R", "S", "T", "U", "V", "W", "X", "Y", "Z">>

\* the characters str.strip() removes, among those the model draws from
Whitespace == {" ", "\n"}

\* str.upper() on one character
upper_char(c) ==
    IF \E i \in DOMAIN Lowers : Lowers[i] = c
    THEN Uppers[CHOOSE i \in DOMAIN Lowers : Lowers[i] = c]
    ELSE c

\* str.upper()
upper(s) == [i \in DOMAIN s |-> upper_char(s[i])]

\* str.strip()
strip(s) ==
    LET keep == {i \in DOMAIN s : s[i] \notin Whitespace}
    IN  IF keep = {} THEN <<>>
        ELSE LET lo == CHOOSE i \in keep : \A j \in keep : i <= j
                 hi == CHOOSE i \in keep : \A j \in keep : j <= i
             IN  SubSeq(s, lo, hi)

\* str.startswith(prefix)
startswith(s, prefix) ==
    /\ Len(s) >= Len(prefix)
    /\ SubSeq(s, 1, Len(prefix)) = prefix

\* the text of a sequence of characters, as an f-string interpolates it
RECURSIVE Str(_)
Str(s) == IF s = <<>> THEN "" ELSE Head(s) \o Str(Tail(s))

\* str.split(".")[-1]
last_segment(s) ==
    LET dots == {i \in DOMAIN s : s[i] = "."}
    IN  IF dots = {} THEN s
        ELSE SubSeq(s, (CHOOSE i \in dots : \A j \in dots : j <= i) + 1, Len(s))

-----------------------------------------------------------------------------
(* Regular expressions of parse_array_type and parse_map_type.             *)

\* where "$" matches: at the end, and before a line break that ends the text
dollar(s) ==
    {Len(s)} \cup (IF Len(s) > 0 /\ s[Len(s)] = "\n" THEN {Len(s) - 1} ELSE {})

\* ".+" matches s[lo..hi]: at least one character, none a line break
dot_plus(s, lo, hi) ==
    /\ lo <= hi
    /\ \A i \in lo..hi : s[i] # "\n"

ARRAY_OPEN == <<"A", "R", "R", "A", "Y", "<">>

MAP_OPEN == <<"M", "A", "P", "<">>

VARCHAR == <<"V", "A", "R", "C", "H", "A", "R">>

\* re.match(r"^ARRAY<(.+)>$", s): the positions e of the closing ">"
array_matches(s) ==
    {e \in dollar(s) :
        /\ startswith(s, ARRAY_OPEN)
        /\ e > Len(ARRAY_OPEN)
        /\ s[e] = ">"
        /\ dot_plus(s, Len(ARRAY_OPEN) + 1, e - 1)}

parse_array_type(ct) ==
    LET s == upper(ct)
        m == array_matches(s)
    IN  IF m # {}
        THEN LET e == CHOOSE x \in m : \A y \in m : y <= x
             IN  Some(strip(SubSeq(s, Len(ARRAY_OPEN) + 1, e - 1)))
        ELSE None

\* re.match(r"^MAP<(.+),(.+)>$", s): the pairs <<c, e>> of the position c of
\* the separating comma and e of the closing ">"
map_matches(s) ==
    {ce \in (DOMAIN s) \X dollar(s) :
        /\ startswith(s, MAP_OPEN)
        /\ ce[2] > Len(MAP_OPEN)
        /\ s[ce[2]] = ">"
        /\ s[ce[1]] = ","
        /\ dot_plus(s, Len(MAP_OPEN) + 1, ce[1] - 1)
        /\ dot_plus(s, ce[1] + 1, ce[2] - 1)}

\* parse_map_type with the two groups taken in the wrong order
parse_map_type_swapped(ct) ==
    LET s == upper(ct)
        m == map_matches(s)
    IN  IF m # {}
        THEN LET ce == CHOOSE x \in m : \A y \in m : y[1] <= x[1]
             IN  Some(<<strip(SubSeq(s, ce[1] + 1, ce[2] - 1)),
                        strip(SubSeq(s, Len(MAP_OPEN) + 1, ce[1] - 1))>>)
        ELSE None

\* the first group is greedy: of the commas that can separate, the last
parse_map_type(ct) ==
    LET s == upper(ct)
        m == map_matches(s)
    IN  IF m # {}
        THEN LET ce == CHOOSE x \in m : \A y \in m : y[1] <= x[1]
             IN  Some(<<strip(SubSeq(s, Len(MAP_OPEN) + 1, ce[1] - 1)),
                        strip(SubSeq(s, ce[1] + 1, ce[2] - 1))>>)
        ELSE None

-----------------------------------------------------------------------------
(* get_proto_field_info                                                    *)

\* type_mapping with DATE given the target type of TIMESTAMP
type_mapping_date_as_timestamp ==
    <<"S", "M", "A", "L", "L", "I", "N", "T">> :> "int32" @@
    <<"I", "N", "T">> :> "int32" @@
    <<"S", "T", "R", "I", "N", "G">> :> "string" @@
    <<"F", "L", "O", "A", "T">> :> "float" @@
    <<"B", "I", "G", "I", "N", "T">> :> "int64" @@
    <<"L", "O", "N", "G">> :> "int64" @@
    <<"S", "H", "O", "R", "T">> :> "int32" @@
    <<"D", "O", "U", "B", "L", "E">> :> "double" @@
    <<"B", "O", "O", "L", "E", "A", "N">> :> "bool" @@
    <<"B", "I", "N", "A", "R", "Y">> :> "bytes" @@
    <<"D", "A", "T", "E">> :> "int64" @@
    <<"T", "I", "M", "E", "S", "T", "A", "M", "P">> :> "int64"

type_mapping ==
    <<"S", "M", "A", "L", "L", "I", "N", "T">> :> "int32" @@
    <<"I", "N", "T">> :> "int32" @@
    <<"S", "T", "R", "I", "N", "G">> :> "string" @@
    <<"F", "L", "O", "A", "T">> :> "float" @@
    <<"B", "I", "G", "I", "N", "T">> :> "int64" @@
    <<"L", "O", "N", "G">> :> "int64" @@
    <<"S", "H", "O", "R", "T">> :> "int32" @@
    <<"D", "O", "U", "B", "L", "E">> :> "double" @@
    <<"B", "O", "O", "L", "E", "A", "N">> :> "bool" @@
    <<"B", "I", "N", "A", "R", "Y">> :> "bytes" @@
    <<"D", "A", "T", "E">> :> "int32" @@
    <<"T", "I", "M", "E", "S", "T", "A", "M", "P">> :> "int64"

\* type_mapping.get(key)
type_mapping_get(key) ==
    IF key \in DOMAIN type_mapping THEN Some(type_mapping[key]) ELSE None

\* a returned tuple (field_modifier, proto_type)
Returned(modifier, proto_type) ==
    [kind |-> "return", modifier |-> modifier, proto_type |-> proto_type]

\* raise ValueError(message)
ValueError(message) == [kind |-> "ValueError", message |-> message]

\* scalar_modifier with the two modifiers exchanged
scalar_modifier_inverted(nl) == IF nl THEN "required" ELSE "optional"

\* "optional" if nullable else "required"
scalar_modifier(nl) == IF nl THEN "optional" ELSE "required"

\* get_proto_field_info with the modifier of an array following nullable
get_proto_field_info_nullable_array(ct, nl) ==
    LET proto_type == type_mapping_get(upper(ct))
        element_type == parse_array_type(ct)
        map_types == parse_map_type(ct)
    IN  IF proto_type # None
        THEN Returned(scalar_modifier(nl), proto_type[1])
        ELSE IF startswith(upper(ct), VARCHAR)
        THEN Returned(scalar_modifier(nl), "string")
        ELSE IF element_type # None
        THEN LET element_proto_type == type_mapping_get(upper(element_type[1]))
             IN  IF element_proto_type = None
                 THEN ValueError("Unsupported array element type: "
                                 \o Str(element_type[1]))
                 ELSE Returned(IF nl THEN "optional" ELSE "repeated",
                               element_proto_type[1])
        ELSE IF map_types # None
        THEN LET key_type == map_types[1][1]
                 value_type == map_types[1][2]
                 key_proto_type == type_mapping_get(upper(key_type))
                 value_proto_type == type_mapping_get(upper(value_type))
             IN  IF key_proto_type = None
                 THEN ValueError("Unsupported map key type: " \o Str(key_type))
                 ELSE IF value_proto_type = None
                 THEN ValueError("Unsupported map value type: "
                                 \o Str(value_type))
                 ELSE Returned("", "map<" \o key_proto_type[1] \o ", "
                                   \o value_proto_type[1] \o ">")
        ELSE ValueError("Unsupported column type: " \o Str(ct))

\* get_proto_field_info with the last error naming the upper-cased text
get_proto_field_info_names_upper(ct, nl) ==
    LET proto_type == type_mapping_get(upper(ct))
        element_type == parse_array_type(ct)
        map_types == parse_map_type(ct)
    IN  IF proto_type # None
        THEN Returned(scalar_modifier(nl), proto_type[1])
        ELSE IF startswith(upper(ct), VARCHAR)
        THEN Returned(scalar_modifier(nl), "string")
        ELSE IF element_type # None
        THEN LET element_proto_type == type_mapping_get(upper(element_type[1]))
             IN  IF element_proto_type = None
                 THEN ValueError("Unsupported array element type: "
                                 \o Str(element_type[1]))
                 ELSE Returned("repeated", element_proto_type[1])
        ELSE IF map_types # None
        THEN LET key_type == map_types[1][1]
                 value_type == map_types[1][2]
                 key_proto_type == type_mapping_get(upper(key_type))
                 value_proto_type == type_mapping_get(upper(value_type))
             IN  IF key_proto_type = None
                 THEN ValueError("Unsupported map key type: " \o Str(key_type))
                 ELSE IF value_proto_type = None
                 THEN ValueError("Unsupported map value type: "
                                 \o Str(value_type))
                 ELSE Returned("", "map<" \o key_proto_type[1] \o ", "
                                   \o value_proto_type[1] \o ">")
        ELSE ValueError("Unsupported column type: " \o Str(upper(ct)))

get_proto_field_info(ct, nl) ==
    LET proto_type == type_mapping_get(upper(ct))
        element_type == parse_array_type(ct)
        map_types == parse_map_type(ct)
    IN  IF proto_type # None
        THEN Returned(scalar_modifier(nl), proto_type[1])
        ELSE IF startswith(upper(ct), VARCHAR)
        THEN Returned(scalar_modifier(nl), "string")
        ELSE IF element_type # None
        THEN LET element_proto_type == type_mapping_get(upper(element_type[1]))
             IN  IF element_proto_type = None
                 THEN ValueError("Unsupported array element type: "
                                 \o Str(element_type[1]))
                 ELSE Returned("repeated", element_proto_type[1])
        ELSE IF map_types # None
        THEN LET key_type == map_types[1][1]
                 value_type == map_types[1][2]
                 key_proto_type == type_mapping_get(upper(key_type))
                 value_proto_type == type_mapping_get(upper(value_type))
             IN  IF key_proto_type = None
                 THEN ValueError("Unsupported map key type: " \o Str(key_type))
                 ELSE IF value_proto_type = None
                 THEN ValueError("Unsupported map value type: "
                                 \o Str(value_type))
                 ELSE Returned("", "map<" \o key_proto_type[1] \o ", "
                                   \o value_proto_type[1] \o ">")
        ELSE ValueError("Unsupported column type: " \o Str(ct))

-----------------------------------------------------------------------------
(* The type texts a call is given.                                         *)

\* the padding, in blanks, tried around the inner types of arrays and maps
MaxPad == 1

\* the number of fragments a free-form type text is put together from
MaxFrags == 3

lower_char(c) ==
    IF \E i \in DOMAIN Uppers : Uppers[i] = c
    THEN Lowers[CHOOSE i \in DOMAIN Uppers : Uppers[i] = c]
    ELSE c

lower(s) == [i \in DOMAIN s |-> lower_char(s[i])]

capitalize(s) == [i \in DOMAIN s |-> IF i = 1 THEN upper_char(s[i]) ELSE lower_char(s[i])]

\* a text in upper, lower and mixed case
Cases(s) == {upper(s), lower(s), capitalize(s)}

Pad(n) == [i \in 1..n |-> " "]

ScalarKeys == DOMAIN type_mapping

VarcharTexts ==
    {VARCHAR,
     <<"v", "a", "r", "c", "h", "a", "r", "(", "1", "0", ")">>,
     <<"V", "a", "r", "C", "h", "a", "r", "(", "2", "5", "5", ")">>,
     <<"v", "a", "r", "c", "h", "a", "r", "2">>}

OtherTexts ==
    {<<>>,
     <<"U", "N", "K", "N", "O", "W", "N", "T", "Y", "P", "E">>,
     <<"D", "E", "C", "I", "M", "A", "L", "(", "1", "0", ",", "2", ")">>,
     <<"s", "t", "r", "u", "c", "t", "<", "a", ":", "i", "n", "t", ">">>,
     <<"C", "H", "A", "R", "(", "3", ")">>}

NestedTexts ==
    {<<"A", "R", "R", "A", "Y", "<", "I", "N", "T", ">">>,
     <<"m", "a", "p", "<", "i", "n", "t", ",", "i", "n", "t", ">">>}

\* what stands between the brackets of an array
InnerTexts ==
    ScalarKeys \cup {lower(k) : k \in ScalarKeys}
               \cup VarcharTexts \cup OtherTexts \cup NestedTexts

\* what stands on a side of a map
SideTexts ==
    ScalarKeys \cup {<<"i", "n", "t">>, <<"S", "t", "r", "i", "n", "g">>}
               \cup VarcharTexts \cup OtherTexts \cup NestedTexts

ScalarTexts ==
    UNION {Cases(k) : k \in ScalarKeys}
    \cup {<<"t", "i", "m", "e", "S", "t", "a", "m", "p">>}
    \cup {k \o <<" ">> : k \in ScalarKeys} \cup {k \o <<"\n">> : k \in ScalarKeys}

ArrayTexts ==
    {open \o Pad(a) \o t \o Pad(b) \o close :
        open \in Cases(ARRAY_OPEN), t \in InnerTexts,
        a \in 0..MaxPad, b \in 0..MaxPad,
        close \in {<<">">>, <<">", "\n">>, <<">", " ">>, <<>>}}

MapTexts ==
    {open \o k \o Pad(a) \o <<",">> \o Pad(a) \o v \o close :
        open \in {MAP_OPEN, lower(MAP_OPEN)}, k \in SideTexts, v \in SideTexts,
        a \in 0..MaxPad, close \in {<<">">>, <<">", "\n">>}}

\* maps whose bracketed content holds two commas
CommaItems ==
    {<<"S", "T", "R", "I", "N", "G">>, <<"i", "n", "t">>, <<"X">>,
     <<"A", "R", "R", "A", "Y", "<", "I", "N", "T", ">">>}

ManyCommaTexts ==
    {MAP_OPEN \o x \o <<",">> \o Pad(a) \o y \o <<",">> \o z \o <<">">> :
        x \in CommaItems, y \in CommaItems \cup {<<>>},
        z \in CommaItems \cup {<<>>}, a \in 0..MaxPad}

Frags ==
    {<<"a", "r", "r", "a", "y", "<">>, MAP_OPEN, <<">">>, <<",">>,
     <<"I", "n", "t">>, <<" ">>, <<"\n">>, <<"v", "a", "r", "c", "h", "a", "r">>}

\* every concatenation of at most n fragments
RECURSIVE FragTexts(_)
FragTexts(n) ==
    IF n = 0 THEN {<<>>}
    ELSE LET shorter == FragTexts(n - 1)
         IN  shorter \cup {f \o t : f \in Frags, t \in shorter}

TypeTexts ==
    ScalarTexts \cup VarcharTexts \cup OtherTexts \cup ArrayTexts
                \cup MapTexts \cup ManyCommaTexts \cup FragTexts(MaxFrags)

-----------------------------------------------------------------------------
(* A call of get_proto_field_info on a type text and a nullability.        *)

NotCalled == [kind |-> "none"]

MapIdle ==
    /\ column_type = <<>>
    /\ nullable = FALSE
    /\ field_info = NotCalled
    /\ call = "idle"

MainIdle ==
    /\ pc = "idle"
    /\ args = None
    /\ table_info = None
    /\ columns = None
    /\ message_name = None
    /\ proto_content = None
    /\ idx = 0
    /\ dest = None
    /\ dest_before = None
    /\ calls = <<>>
    /\ raised = "none"
    /\ stderr = None
    /\ exit_code = None

MapInit ==
    /\ column_type \in TypeTexts
    /\ nullable \in BOOLEAN
    /\ field_info = NotCalled
    /\ call = "pending"
    /\ MainIdle

CallGetProtoFieldInfo ==
    /\ call = "pending"
    /\ field_info' = get_proto_field_info(column_type, nullable)
    /\ call' = "returned"
    /\ UNCHANGED <<column_type, nullable>>
    /\ UNCHANGED mainvars

MapNext == CallGetProtoFieldInfo

MapSpec == MapInit /\ [][MapNext]_vars

-----------------------------------------------------------------------------
(* A run of main: fetch, extract, generate, write.                         *)

\* the number of columns of the longest table fetched
MaxCols == 3

\* the columns of the payloads: the dicts of the "columns" list
GoodColumns ==
    {[name |-> "id", type_text |-> <<"I", "N", "T">>, nullable |-> FALSE],
     [name |-> "tags",
      type_text |-> <<"a", "r", "r", "a", "y", "<", "s", "t", "r", "i", "n", "g", ">">>,
      nullable |-> TRUE],
     [name |-> "meta",
      type_text |-> <<"M", "A", "P", "<", "S", "T", "R", "I", "N", "G", ",",
                      "S", "T", "R", "I", "N", "G", ">">>,
      nullable |-> FALSE],
     [name |-> "note",
      type_text |-> <<"v", "a", "r", "c", "h", "a", "r", "(", "1", "0", ")">>,
      nullable |-> TRUE]}

UnsupportedColumns ==
    {[name |-> "amount",
      type_text |-> <<"D", "E", "C", "I", "M", "A", "L", "(", "1", "0", ",", "2", ")">>,
      nullable |-> TRUE]}

BrokenColumns ==
    {[name |-> "id", nullable |-> FALSE],
     [type_text |-> <<"I", "N", "T">>, nullable |-> FALSE],
     [name |-> "id", type_text |-> <<"I", "N", "T">>]}

ColumnDicts == GoodColumns \cup UnsupportedColumns \cup BrokenColumns

\* the lists of at most n column dicts
ColumnLists(n) == UNION {[1..k -> ColumnDicts] : k \in 0..n}

\* the payloads response.json() returns
TableInfos ==
    {[name |-> "events"]}
    \cup {[name |-> "events", columns |-> cols] : cols \in ColumnLists(MaxCols)}

\* the command lines
ArgSets ==
    {[table |-> <<"c", "a", "t", ".", "s", "c", "h", ".", "e", "v", "e", "n", "t", "s">>,
      proto_msg |-> None, output |-> "out.proto"],
     [table |-> <<"e", "v", "e", "n", "t", "s">>,
      proto_msg |-> Some(""), output |-> "out.proto"],
     [table |-> <<"c", "a", "t", ".", "s", "c", "h", ".", "e", "v", "e", "n", "t", "s">>,
      proto_msg |-> Some("Row"), output |-> "out.proto"]}

\* the text of a file a run may find at the output path
OldText == "message Old {}"

Init ==
    /\ MapIdle
    /\ pc = "fetch_table_info"
    /\ args \in ArgSets
    /\ table_info = None
    /\ columns = None
    /\ message_name = None
    /\ proto_content = None
    /\ idx = 0
    /\ dest \in {None, Some(OldText)}
    /\ dest_before = dest
    /\ calls = <<>>
    /\ raised = "none"
    /\ stderr = None
    /\ exit_code = None

\* an except clause of main with its return left out: main returns None
ExceptFallsThrough(exception, message) ==
    /\ raised' = exception
    /\ stderr' = Some(message)
    /\ exit_code' = Some(0)
    /\ pc' = "done"

\* the except clauses of main: print to stderr, return 1
Except(exception, message) ==
    /\ raised' = exception
    /\ stderr' = Some(message)
    /\ exit_code' = Some(1)
    /\ pc' = "done"

\* table_info = fetch_table_info(...)
FetchTableInfo ==
    /\ pc = "fetch_table_info"
    /\ calls' = Append(calls, "fetch_table_info")
    /\ \/ /\ \E info \in TableInfos : table_info' = Some(info)
          /\ pc' = "extract_columns"
          /\ UNCHANGED <<raised, stderr, exit_code>>
       \/ /\ Except("RequestException", "Error making request to Unity Catalog: ")
          /\ UNCHANGED table_info
    /\ UNCHANGED <<args, columns, message_name, proto_content, idx, dest, dest_before>>
    /\ UNCHANGED mapvars

\* the keys extract_columns reads from a column dict, in the order it reads them
ColumnKeys == <<"name", "type_text", "nullable">>

\* the key whose lookup raises KeyError in extract_columns, if any
missing_key(info) ==
    IF "columns" \notin DOMAIN info THEN Some("columns")
    ELSE LET cols == info.columns
             bad == {i \in DOMAIN cols : \E j \in DOMAIN ColumnKeys :
                                            ColumnKeys[j] \notin DOMAIN cols[i]}
         IN  IF bad = {} THEN None
             ELSE LET i == CHOOSE x \in bad : \A y \in bad : x <= y
                      j == CHOOSE x \in DOMAIN ColumnKeys :
                               /\ ColumnKeys[x] \notin DOMAIN cols[i]
                               /\ \A y \in 1..(x - 1) : ColumnKeys[y] \in DOMAIN cols[i]
                  IN  Some(ColumnKeys[j])

\* the list extract_columns returns
extract_columns(info) ==
    [i \in DOMAIN info.columns |->
        [name |-> info.columns[i].name,
         type_text |-> info.columns[i].type_text,
         nullable |-> info.columns[i].nullable]]

\* columns = extract_columns(table_info), then the choice of message_name
ExtractColumns ==
    /\ pc = "extract_columns"
    /\ calls' = Append(calls, "extract_columns")
    /\ IF missing_key(table_info[1]) # None
       THEN /\ Except("KeyError",
                      "Error processing table schema: \"Failed to extract column "
                      \o "information: missing key '"
                      \o missing_key(table_info[1])[1] \o "'\"")
            /\ UNCHANGED <<columns, message_name>>
       ELSE /\ columns' = Some(extract_columns(table_info[1]))
            /\ message_name' =
                   IF args.proto_msg # None /\ args.proto_msg[1] # ""
                   THEN Some(args.proto_msg[1])
                   ELSE Some(Str(last_segment(args.table)))
            /\ pc' = "generate_proto_file"
            /\ UNCHANGED <<raised, stderr, exit_code>>
    /\ UNCHANGED <<args, table_info, proto_content, idx, dest, dest_before>>
    /\ UNCHANGED mapvars

\* generate_proto_file entered with the output opened for writing at once
BeginGenerateOpensFirst ==
    /\ pc = "generate_proto_file"
    /\ calls' = Append(calls, "generate_proto_file")
    /\ proto_content' = Some(<<"syntax = \"proto2\";", "",
                               "message " \o message_name[1] \o " {">>)
    /\ idx' = 1
    /\ dest' = Some("")
    /\ pc' = "fields"
    /\ UNCHANGED <<args, table_info, columns, message_name, dest_before,
                   raised, stderr, exit_code>>
    /\ UNCHANGED mapvars

\* generate_proto_file entered: the three lines of the header
BeginGenerate ==
    /\ pc = "generate_proto_file"
    /\ calls' = Append(calls, "generate_proto_file")
    /\ proto_content' = Some(<<"syntax = \"proto2\";", "",
                               "message " \o message_name[1] \o " {">>)
    /\ idx' = 1
    /\ pc' = "fields"
    /\ UNCHANGED <<args, table_info, columns, message_name, dest, dest_before,
                   raised, stderr, exit_code>>
    /\ UNCHANGED mapvars

\* field_line with the tags counted from 0
field_line_zero_based(modifier, proto_type, field_name, i) ==
    IF modifier = ""
    THEN "    " \o proto_type \o " " \o field_name \o " = " \o ToString(i - 1) \o ";"
    ELSE "    " \o modifier \o " " \o proto_type \o " " \o field_name
                \o " = " \o ToString(i - 1) \o ";"

\* the line of one field
field_line(modifier, proto_type, field_name, i) ==
    IF modifier = ""
    THEN "    " \o proto_type \o " " \o field_name \o " = " \o ToString(i) \o ";"
    ELSE "    " \o modifier \o " " \o proto_type \o " " \o field_name
                \o " = " \o ToString(i) \o ";"

\* one turn of the loop over the columns
AddField ==
    /\ pc = "fields"
    /\ idx <= Len(columns[1])
    /\ LET col == columns[1][idx]
           info == get_proto_field_info(col.type_text, col.nullable)
       IN  IF info.kind = "ValueError"
           THEN /\ Except("ValueError", "Error mapping column type: " \o info.message)
                /\ UNCHANGED <<proto_content, idx>>
           ELSE /\ proto_content' =
                       Some(Append(proto_content[1],
                                   field_line(info.modifier, info.proto_type,
                                              col.name, idx)))
                /\ idx' = idx + 1
                /\ UNCHANGED <<pc, raised, stderr, exit_code>>
    /\ UNCHANGED <<args, table_info, columns, message_name, dest, dest_before, calls>>
    /\ UNCHANGED mapvars

\* the loop is over: the closing lines, then open(output_path, "w")
OpenOutput ==
    /\ pc = "fields"
    /\ idx > Len(columns[1])
    /\ proto_content' = Some(proto_content[1] \o <<"}", "">>)
    /\ calls' = Append(calls, "open")
    /\ \/ /\ dest' = Some("")
          /\ pc' = "write"
          /\ UNCHANGED <<raised, stderr, exit_code>>
       \/ /\ Except("IOError", "Error writing proto file: ")
          /\ UNCHANGED dest
    /\ UNCHANGED <<args, table_info, columns, message_name, idx, dest_before>>
    /\ UNCHANGED mapvars

\* "\n".join(lines)
RECURSIVE join(_)
join(lines) ==
    IF lines = <<>> THEN ""
    ELSE IF Len(lines) = 1 THEN lines[1]
    ELSE lines[1] \o "\n" \o join(Tail(lines))

\* f.write(...), the file closed, then the success message and return 0
WriteOutput ==
    /\ pc = "write"
    /\ calls' = Append(calls, "write")
    /\ \/ /\ dest' = Some(join(proto_content[1]))
          /\ exit_code' = Some(0)
          /\ pc' = "done"
          /\ UNCHANGED <<raised, stderr>>
       \/ /\ Except("IOError", "Error writing proto file: ")
          /\ \E k \in 0..(Len(proto_content[1]) - 1) :
                dest' = Some(join(SubSeq(proto_content[1], 1, k)))
    /\ UNCHANGED <<args, table_info, columns, message_name, proto_content, idx,
                   dest_before>>
    /\ UNCHANGED mapvars

Next ==
    \/ FetchTableInfo
    \/ ExtractColumns
    \/ BeginGenerate
    \/ AddField
    \/ OpenOutput
    \/ WriteOutput

Spec == Init /\ [][Next]_vars

-----------------------------------------------------------------------------
(* What the claims about get_proto_field_info speak of, stated on the type *)
(* text itself and not through the parsing operators above.                *)

\* the scalar table as documented: key -> target type
Documented ==
    <<"S", "M", "A", "L", "L", "I", "N", "T">> :> "int32" @@
    <<"S", "H", "O", "R", "T">> :> "int32" @@
    <<"I", "N", "T">> :> "int32" @@
    <<"S", "T", "R", "I", "N", "G">> :> "string" @@
    <<"F", "L", "O", "A", "T">> :> "float" @@
    <<"B", "I", "G", "I", "N", "T">> :> "int64" @@
    <<"L", "O", "N", "G">> :> "int64" @@
    <<"D", "O", "U", "B", "L", "E">> :> "double" @@
    <<"B", "O", "O", "L", "E", "A", "N">> :> "bool" @@
    <<"B", "I", "N", "A", "R", "Y">> :> "bytes" @@
    <<"D", "A", "T", "E">> :> "int32" @@
    <<"T", "I", "M", "E", "S", "T", "A", "M", "P">> :> "int64"

\* two texts that differ in letter case at most
SameIgnoringCase(a, b) == lower(a) = lower(b)

\* t is a key of the scalar table, in any letter case
IsScalarKey(t) == \E k \in DOMAIN Documented : SameIgnoringCase(t, k)

\* t belongs to the variable-length string family
IsVarcharFamily(t) ==
    /\ Len(t) >= Len(VARCHAR)
    /\ SameIgnoringCase(SubSeq(t, 1, Len(VARCHAR)), VARCHAR)

\* t is open, then inner, then ">"
Encloses(t, open, inner) ==
    /\ Len(t) = Len(open) + Len(inner) + 1
    /\ SameIgnoringCase(SubSeq(t, 1, Len(open)), open)
    /\ SubSeq(t, Len(open) + 1, Len(t) - 1) = inner
    /\ t[Len(t)] = ">"

\* the text between open and the final ">" of t
Between(t, open) == SubSeq(t, Len(open) + 1, Len(t) - 1)

\* t without the line break that may end it
Chomp(t) ==
    IF Len(t) > 0 /\ t[Len(t)] = "\n" THEN SubSeq(t, 1, Len(t) - 1) ELSE t

\* t has the form ARRAY<...>: something stands between the brackets
IsArrayForm(t) ==
    /\ Len(t) > Len(ARRAY_OPEN) + 1
    /\ Encloses(t, ARRAY_OPEN, Between(t, ARRAY_OPEN))

\* t has the form MAP<...,...>: between the brackets a comma stands, with
\* something before it and something after it
IsMapForm(t) ==
    /\ Len(t) > Len(MAP_OPEN) + 1
    /\ Encloses(t, MAP_OPEN, Between(t, MAP_OPEN))
    /\ \E i \in DOMAIN Between(t, MAP_OPEN) :
          /\ 1 < i /\ i < Len(Between(t, MAP_OPEN))
          /\ Between(t, MAP_OPEN)[i] = ","

ArrayOfKeyMapped ==
    /\ call = "returned"
    /\ column_type = <<"a", "r", "r", "a", "y", "<", "b", "i", "n", "a", "r", "y", ">">>
    /\ nullable
    /\ field_info = Returned("repeated", "bytes")

\* C2: ARRAY<T> with T a key of the scalar table maps to 'repeated' and the
\* target type of T, whatever nullable is.
ArrayOfKeyIsRepeated ==
    (call = "returned" /\ IsArrayForm(column_type)) =>
        \A k \in DOMAIN Documented :
            (/\ Len(Between(column_type, ARRAY_OPEN)) = Len(k)
             /\ SameIgnoringCase(Between(column_type, ARRAY_OPEN), k))
            => field_info = Returned("repeated", Documented[k])

MapOfKeysMapped ==
    /\ call = "returned"
    /\ column_type = <<"m", "a", "p", "<">> \o <<"S", "T", "R", "I", "N", "G">>
                        \o <<",">> \o <<"I", "N", "T">> \o <<">">>
    /\ ~nullable
    /\ field_info = Returned("", "map<string, int32>")

\* C3: MAP<K,V> with K and V keys of the scalar table maps to no modifier and
\* the target type map<mapped(K), mapped(V)>, whatever nullable is.
MapOfKeysHasNoModifier ==
    (call = "returned" /\ IsMapForm(column_type)) =>
        \A k \in DOMAIN Documented, v \in DOMAIN Documented :
            (/\ Len(Between(column_type, MAP_OPEN)) = Len(k) + 1 + Len(v)
             /\ SameIgnoringCase(Between(column_type, MAP_OPEN), k \o <<",">> \o v))
            => field_info = Returned("", "map<" \o Documented[k] \o ", "
                                         \o Documented[v] \o ">")

Commas(t) == {i \in DOMAIN t : t[i] = ","}

\* the text resolves as a scalar under the rules of a top-level type
ResolvesAsScalar(t) == IsScalarKey(t) \/ IsVarcharFamily(t)

\* the target type of a text that resolves as a scalar
ScalarTarget(t) ==
    IF IsScalarKey(t) THEN Documented[upper(t)] ELSE "string"

\* C9, as stated: when the bracketed content of MAP<...> holds more than one
\* comma, the key is the text before the first comma and the value is all
\* that follows it, and the error names the one of the two that fails.
MapSplitsAtFirstComma ==
    (/\ call = "returned"
     /\ IsMapForm(column_type)
     /\ Cardinality(Commas(Between(column_type, MAP_OPEN))) > 1
     /\ \A i \in DOMAIN column_type : column_type[i] # "\n")
    => LET content == upper(Between(column_type, MAP_OPEN))
           first == CHOOSE i \in Commas(content) : \A j \in Commas(content) : i <= j
           key == strip(SubSeq(content, 1, first - 1))
           value == strip(SubSeq(content, first + 1, Len(content)))
       IN  IF ~IsScalarKey(key)
           THEN field_info = ValueError("Unsupported map key type: " \o Str(key))
           ELSE field_info = ValueError("Unsupported map value type: " \o Str(value))

\* What the code does in the case of C9: the separating comma is the last
\* one that leaves something after it, so that the key is all that precedes
\* that comma, earlier commas included.
MapSplitsAtLastComma ==
    (/\ call = "returned"
     /\ IsMapForm(column_type)
     /\ Cardinality(Commas(Between(column_type, MAP_OPEN))) > 1
     /\ \A i \in DOMAIN column_type : column_type[i] # "\n")
    => LET content == upper(Between(column_type, MAP_OPEN))
           seps == {i \in Commas(content) : 1 < i /\ i < Len(content)}
           last == CHOOSE i \in seps : \A j \in seps : j <= i
           key == strip(SubSeq(content, 1, last - 1))
           value == strip(SubSeq(content, last + 1, Len(content)))
       IN  IF seps = {}
           THEN field_info = ValueError("Unsupported column type: " \o Str(column_type))
           ELSE IF ~IsScalarKey(key)
           THEN field_info = ValueError("Unsupported map key type: " \o Str(key))
           ELSE field_info = ValueError("Unsupported map value type: " \o Str(value))

\* C10, as stated: the element of an array and the two sides of a map resolve
\* under the rules of a top-level scalar, so that a key of the scalar table
\* and a text of the variable-length string family both resolve, and nothing
\* else does.
InnerResolvesAsTopLevelScalar ==
    /\ (/\ call = "returned"
        /\ IsArrayForm(column_type)
        /\ \A i \in DOMAIN column_type : column_type[i] # "\n")
       => LET element == strip(Between(column_type, ARRAY_OPEN))
          IN  IF ResolvesAsScalar(element)
              THEN field_info = Returned("repeated", ScalarTarget(element))
              ELSE field_info.kind = "ValueError"
    /\ (/\ call = "returned"
        /\ IsMapForm(column_type)
        /\ Cardinality(Commas(Between(column_type, MAP_OPEN))) = 1
        /\ \A i \in DOMAIN column_type : column_type[i] # "\n")
       => LET content == Between(column_type, MAP_OPEN)
              comma == CHOOSE i \in Commas(content) : TRUE
              key == strip(SubSeq(content, 1, comma - 1))
              value == strip(SubSeq(content, comma + 1, Len(content)))
          IN  IF ResolvesAsScalar(key) /\ ResolvesAsScalar(value)
              THEN field_info = Returned("", "map<" \o ScalarTarget(key) \o ", "
                                             \o ScalarTarget(value) \o ">")
              ELSE field_info.kind = "ValueError"

\* What the code does in the case of C10: an inner text resolves exactly
\* when it is a key of the scalar table, so that the variable-length string
\* family is refused inside an array and inside a map.
InnerResolvesAsScalarKeyOnly ==
    /\ (/\ call = "returned"
        /\ IsArrayForm(column_type)
        /\ \A i \in DOMAIN column_type : column_type[i] # "\n")
       => LET element == strip(Between(column_type, ARRAY_OPEN))
          IN  IF IsScalarKey(element)
              THEN field_info = Returned("repeated", ScalarTarget(element))
              ELSE field_info = ValueError("Unsupported array element type: "
                                           \o Str(upper(element)))
    /\ (/\ call = "returned"
        /\ IsMapForm(column_type)
        /\ Cardinality(Commas(Between(column_type, MAP_OPEN))) = 1
        /\ \A i \in DOMAIN column_type : column_type[i] # "\n")
       => LET content == Between(column_type, MAP_OPEN)
              comma == CHOOSE i \in Commas(content) : TRUE
              key == strip(SubSeq(content, 1, comma - 1))
              value == strip(SubSeq(content, comma + 1, Len(content)))
          IN  IF IsScalarKey(key) /\ IsScalarKey(value)
              THEN field_info = Returned("", "map<" \o ScalarTarget(key) \o ", "
                                             \o ScalarTarget(value) \o ">")
              ELSE field_info.kind = "ValueError"

-----------------------------------------------------------------------------
(* What the claims about generate_proto_file and main speak of.            *)

\* the column at position i of the extracted list maps to a field
Maps(i) ==
    get_proto_field_info(columns[1][i].type_text, columns[1][i].nullable).kind
        = "return"

\* "<modifier> <type>" of a column, the modifier left out when it is empty
Declaration(col) ==
    LET info == get_proto_field_info(col.type_text, col.nullable)
    IN  IF info.modifier = "" THEN info.proto_type
        ELSE info.modifier \o " " \o info.proto_type

\* the payload has the shape extract_columns needs
WellShaped(info) ==
    /\ "columns" \in DOMAIN info
    /\ \A i \in DOMAIN info.columns :
          {"name", "type_text", "nullable"} \subseteq DOMAIN info.columns[i]

AllSteps ==
    <<"fetch_table_info", "extract_columns", "generate_proto_file", "open", "write">>

ThreeFieldsWritten ==
    /\ pc = "done"
    /\ exit_code = Some(0)
    /\ Len(columns[1]) = 3
    /\ columns[1][1].name = "meta"
    /\ columns[1][2].name = "tags"
    /\ columns[1][3].name = "id"
    /\ dest = Some(join(<<"syntax = \"proto2\";", "", "message Row {",
                          "    map<string, string> meta = 1;",
                          "    repeated string tags = 2;",
                          "    required int32 id = 3;",
                          "}", "">>))

\* C4: after a successful run on N columns the output holds exactly N field
\* lines; the i-th carries the name of the i-th column and the tag i.
FieldTagsFollowInputOrder ==
    (pc = "done" /\ exit_code = Some(0)) =>
        LET cols == columns[1]
            lines == proto_content[1]
        IN  /\ Len(lines) = Len(cols) + 5
            /\ SubSeq(lines, 1, 3) =
                   <<"syntax = \"proto2\";", "", "message " \o message_name[1] \o " {">>
            /\ \A i \in 1..Len(cols) :
                   lines[3 + i] = "    " \o Declaration(cols[i]) \o " " \o cols[i].name
                                         \o " = " \o ToString(i) \o ";"
            /\ SubSeq(lines, Len(cols) + 4, Len(cols) + 5) = <<"}", "">>
            /\ dest = Some(join(lines))

MiddleColumnRejected ==
    /\ pc = "done"
    /\ raised = "ValueError"
    /\ Len(columns[1]) = 3
    /\ Maps(1) /\ ~Maps(2) /\ Maps(3)
    /\ Len(proto_content[1]) = 4
    /\ dest_before = Some(OldText)
    /\ dest = Some(OldText)

\* C5: when the type text of a column, at any position, fails to map, the
\* run raises before the destination is opened: the destination stays as the
\* run found it, and none of the header or field lines reaches it.
UnsupportedTypeLeavesDestination ==
    (columns # None /\ \E i \in DOMAIN columns[1] : ~Maps(i)) =>
        /\ dest = dest_before
        /\ \A j \in DOMAIN calls : calls[j] \notin {"open", "write"}
        /\ pc = "done" =>
              /\ raised = "ValueError"
              /\ idx = CHOOSE i \in DOMAIN columns[1] :
                           ~Maps(i) /\ \A j \in 1..(i - 1) : Maps(j)

WriteFailed ==
    /\ pc = "done"
    /\ raised = "IOError"
    /\ calls = AllSteps
    /\ exit_code = Some(1)
    /\ Len(columns[1]) = 2

\* C6: main returns 0 only when the fetch, the extraction, the mapping of
\* every column and the write all succeeded; a failure of any of the four
\* returns a non-zero code and keeps the later steps from running.
ExitCodeTellsSuccess ==
    pc = "done" =>
        /\ exit_code \in {Some(0), Some(1)}
        /\ exit_code = Some(0) <=> raised = "none"
        /\ raised = "none" =>
              /\ table_info # None /\ WellShaped(table_info[1])
              /\ \A i \in DOMAIN columns[1] : Maps(i)
              /\ calls = AllSteps
              /\ dest = Some(join(proto_content[1]))
        /\ table_info = None =>
              /\ raised = "RequestException"
              /\ calls = SubSeq(AllSteps, 1, 1)
              /\ columns = None /\ proto_content = None /\ dest = dest_before
        /\ (table_info # None /\ ~WellShaped(table_info[1])) =>
              /\ raised = "KeyError"
              /\ calls = SubSeq(AllSteps, 1, 2)
              /\ columns = None /\ proto_content = None /\ dest = dest_before
        /\ (columns # None /\ \E i \in DOMAIN columns[1] : ~Maps(i)) =>
              /\ raised = "ValueError"
              /\ calls = SubSeq(AllSteps, 1, 3)
              /\ dest = dest_before
        /\ raised = "IOError" =>
              /\ exit_code = Some(1)
              /\ calls \in {SubSeq(AllSteps, 1, 4), AllSteps}

=============================================================================
